---------------------------- MODULE Spec2Model ----------------------------
(***************************************************************************)
(* Dynamic pricing engine (src/main.py): the three price calculators, the  *)
(* factor resolver, the strategy registry, calculate() with its history    *)
(* append through a scoped storage session, the /calculate-price endpoint  *)
(* and the background competitor-price refresh.                            *)
(*                                                                         *)
(* Money is held in integer cents.  The Python code computes in binary     *)
(* floating point; the model computes the same expressions over the exact  *)
(* rationals.  A rational amount of cents is a pair <<w, f>> standing for   *)
(* w + f / FracDen cents with 0 <= f < FracDen.  round(x, 2) is rounding    *)
(* of such an amount to whole cents.  An amount exactly half way between   *)
(* two cents is rounded to the even one; the float next to such an amount  *)
(* lies on either side of it, so the code may give either cent there, and  *)
(* the properties below allow both.                                        *)
(***************************************************************************)
EXTENDS Integers, Sequences, FiniteSets, TLC

VARIABLES
    pc,             \* position of the calculate() call in flight
    req,            \* its PricingRequest
    strategy,       \* its strategy argument
    via,            \* how it was entered: "endpoint" or "direct"
    price_data,     \* what calculation_method(req) returned
    outcome,        \* what the call gave its caller
    db,             \* the session opened by get_db() in calculate()
    history,        \* table pricing_history, committed rows
    competitor_prices, \* table competitor_prices, committed rows
    task,           \* the background task monitor_competitors
    log,            \* bookkeeping about finished and running calls
    fr              \* one application of _factor: arguments and result

vars == <<pc, req, strategy, via, price_data, outcome, db, history,
          competitor_prices, task, log, fr>>

---------------------------------------------------------------------------
(* Bounds of the model *)

MaxCost == 6
MaxComp == 6
MaxDemand == 11
MaxSeason == 2
MaxCalls == 2
MaxRefresh == 1
MaxLen == 2
MaxThreshold == 3

---------------------------------------------------------------------------
(* Exact arithmetic on amounts of cents *)

\* common denominator of every fraction of a cent the calculators produce:
\* markup /100, then four factors in twentieths
FracDen == 100 * 20 * 20 * 20 * 20

\* <<q, r>> with c * k = q * d + r and 0 <= r < d, for c >= 0, 0 <= k < d,
\* without forming the product c * k
RECURSIVE MulDivSmall(_, _, _)
MulDivSmall(c, k, d) ==
    IF c = 0 THEN <<0, 0>>
    ELSE LET h == MulDivSmall(c \div 2, k, d)
             r2 == 2 * h[2] + (IF c % 2 = 1 THEN k ELSE 0)
         IN  <<2 * h[1] + (r2 \div d), r2 % d>>

\* the amount c * n / d, for c >= 0, n >= 0, d a divisor of FracDen
Times(c, n, d) ==
    LET md == MulDivSmall(c, n % d, d)
    IN  <<c * (n \div d) + md[1], md[2] * (FracDen \div d)>>

Leq(a, b) == a[1] < b[1] \/ (a[1] = b[1] /\ a[2] <= b[2])
Less(a, b) == ~Leq(b, a)
Max(a, b) == IF Leq(a, b) THEN b ELSE a
Min(a, b) == IF Leq(a, b) THEN a ELSE b
Cents(n) == <<n, 0>>

\* the cents of v with the fraction dropped
RoundDown(v) == v[1]

\* round(x, 2): to the nearest cent, ties to the even cent
Round2(v) ==
    IF 2 * v[2] < FracDen THEN v[1]
    ELSE IF 2 * v[2] > FracDen THEN v[1] + 1
    ELSE IF v[1] % 2 = 0 THEN v[1] ELSE v[1] + 1

---------------------------------------------------------------------------
(* Tables and helpers of DynamicPricingEngine *)

\* 100 * _get_base_markup(ds)
_get_base_markup(ds) ==
    CASE ds = 1 -> 15 [] ds = 2 -> 18 [] ds = 3 -> 20 [] ds = 4 -> 25
      [] ds = 5 -> 30 [] ds = 6 -> 35 [] ds = 7 -> 42 [] ds = 8 -> 50
      [] ds = 9 -> 60 [] ds = 10 -> 75 [] OTHER -> 30

\* zip(thresholds, factors): the pairs up to the shorter length
ZipLen(thresholds, factors) ==
    IF Len(thresholds) <= Len(factors) THEN Len(thresholds) ELSE Len(factors)

\* the scan with "value < th" for "value <= th"
RECURSIVE FactorScanStrict(_, _, _, _)
FactorScanStrict(value, thresholds, factors, i) ==
    IF i > ZipLen(thresholds, factors) THEN factors[Len(factors)]
    ELSE IF value < thresholds[i] THEN factors[i]
    ELSE FactorScanStrict(value, thresholds, factors, i + 1)

\* the for loop of _factor from position i on
RECURSIVE FactorScan(_, _, _, _)
FactorScan(value, thresholds, factors, i) ==
    IF i > ZipLen(thresholds, factors) THEN factors[Len(factors)]
    ELSE IF value <= thresholds[i] THEN factors[i]
    ELSE FactorScan(value, thresholds, factors, i + 1)

_factor(value, thresholds, factors) == FactorScan(value, thresholds, factors, 1)

\* 20 * segment factor
SegFactor(seg) ==
    CASE seg = "premium" -> 24 [] seg = "standard" -> 20
      [] seg = "budget" -> 17 [] seg = "loyalty" -> 18 [] OTHER -> 20

\* the ceiling applied last, so that it wins over the floor
ClampCeilingWins(price, floor, ceiling) == Min(ceiling, Max(floor, price))

\* the ceiling alone
ClampNoFloor(price, floor, ceiling) == Min(price, ceiling)

\* max(floor, min(price, ceiling))
Clamp(price, floor, ceiling) == Max(floor, Min(price, ceiling))

ZeroDivisionError == [error |-> "ZeroDivisionError"]
Raised(r) == "error" \in DOMAIN r

\* 20 * comp_factor, from comp_ratio = base / competitor_price
CompFactor(r) ==
    LET base == Times(r.cost_price, 100 + _get_base_markup(r.demand_score), 100)
    IN  IF Less(Times(r.competitor_price, 110, 100), base) THEN 19
        ELSE IF Less(base, Times(r.competitor_price, 90, 100)) THEN 21
        ELSE 20

\* _calculate_default_price once comp_ratio has been computed
DefaultQuote(r) ==
    LET m == 100 + _get_base_markup(r.demand_score)
        base == Times(r.cost_price, m, 100)
        demand_factor == _factor(r.demand_score, <<3, 7>>, <<17, 20, 25>>)
        inv_factor == _factor(r.inventory, <<10, 100>>, <<23, 20, 18>>)
        comp_factor == CompFactor(r)
        seg_factor == SegFactor(r.customer_segment)
        raw == Times(r.cost_price,
                     m * demand_factor * inv_factor * comp_factor
                       * r.seasonality_factor * seg_factor,
                     FracDen)
        price == Clamp(raw, Times(r.cost_price, 110, 100),
                       Times(r.competitor_price, 120, 100))
    IN  [product_id |-> r.product_id, dynamic_price |-> Round2(price),
         base_price |-> Round2(base), strategy |-> "default"]

\* a zero competitor price taken as "no competitor" instead of dividing by it
_calculate_default_price_guarded(r) == DefaultQuote(r)

\* base / req.competitor_price raises when the competitor price is zero
_calculate_default_price(r) ==
    IF r.competitor_price = 0 THEN ZeroDivisionError ELSE DefaultQuote(r)

_calculate_aggressive_price(r) ==
    LET m == 100 + _get_base_markup(r.demand_score) + 10
        base == Times(r.cost_price, m, 100)
        demand_factor == _factor(r.demand_score, <<3, 7>>, <<18, 22, 28>>)
        raw == Times(r.cost_price, m * demand_factor, 100 * 20)
        price == Clamp(raw, Times(r.cost_price, 105, 100),
                       Times(r.competitor_price, 110, 100))
    IN  [product_id |-> r.product_id, dynamic_price |-> Round2(price),
         base_price |-> Round2(base), strategy |-> "aggressive"]

_calculate_conservative_price(r) ==
    LET m == 100 + _get_base_markup(r.demand_score) - 5
        base == Times(r.cost_price, m, 100)
        demand_factor == _factor(r.demand_score, <<3, 7>>, <<16, 19, 23>>)
        raw == Times(r.cost_price, m * demand_factor, 100 * 20)
        price == Clamp(raw, Times(r.cost_price, 115, 100),
                       Times(r.competitor_price, 95, 100))
    IN  [product_id |-> r.product_id, dynamic_price |-> Round2(price),
         base_price |-> Round2(base), strategy |-> "conservative"]

\* a registry whose fallback is the conservative calculator
RegistryKeyConservative(s) ==
    IF s \in {"default", "aggressive", "conservative"} THEN s ELSE "conservative"

\* self.price_adjustment_strategies.get(strategy, self._calculate_default_price)
RegistryKey(s) ==
    IF s \in {"default", "aggressive", "conservative"} THEN s ELSE "default"

calculation_method(s, r) ==
    CASE RegistryKey(s) = "aggressive" -> _calculate_aggressive_price(r)
      [] RegistryKey(s) = "conservative" -> _calculate_conservative_price(r)
      [] OTHER -> _calculate_default_price(r)

---------------------------------------------------------------------------
(* Inputs *)

ProductIds == {"PROD-001"}
CostPrices == (0..MaxCost) \cup {1000, 10000}
CompetitorPrices == (0..MaxComp) \cup {2000, 9000}
DemandScores == 0..MaxDemand
Inventories == {0, 10, 11, 100, 101}
Segments == {"premium", "standard", "budget", "loyalty", "wholesale"}
Seasonalities == 0..MaxSeason
Strategies == {"default", "aggressive", "conservative", "", "agressive"}

PricingRequest(p, c, ds, inv, comp, seg, season) ==
    [product_id |-> p, cost_price |-> c, demand_score |-> ds,
     inventory |-> inv, competitor_price |-> comp,
     customer_segment |-> seg, seasonality_factor |-> season]

Requests ==
    {PricingRequest(p, c, ds, inv, comp, seg, season) :
        p \in ProductIds, c \in CostPrices, ds \in DemandScores,
        inv \in Inventories, comp \in CompetitorPrices,
        seg \in Segments, season \in Seasonalities}

\* the requests the engine is driven with: the two worked examples and
\* a request whose competitor price is zero
SampleRequests ==
    {PricingRequest("PROD-001", 1000, 5, 50, 2000, "standard", 1),
     PricingRequest("PROD-001", 10000, 1, 50, 9000, "standard", 1),
     PricingRequest("PROD-001", 1001, 7, 10, 1200, "premium", 2),
     PricingRequest("PROD-001", 1000, 5, 50, 0, "standard", 1)}

---------------------------------------------------------------------------
(* State *)

None == [none |-> TRUE]
StorageWriteFailure == [error |-> "StorageWriteFailure"]
Closed == [open |-> FALSE, pending |-> <<>>]
NoTask == [pc |-> "none", pending |-> <<>>, runs |-> 0]
NoFactor == [value |-> 0, thresholds |-> <<>>, factors |-> <<0>>,
             done |-> FALSE, result |-> 0]
EmptyLog == [calls |-> 0, opened |-> 0, appends |-> 0, before |-> <<>>,
             returned |-> <<>>]

\* PricingHistory(...) as built in calculate(); id is the row's position
PricingHistory(r, pd, s) ==
    [product_id |-> r.product_id, original_price |-> pd.base_price,
     dynamic_price |-> pd.dynamic_price, demand_score |-> r.demand_score,
     inventory |-> r.inventory, competitor_price |-> r.competitor_price,
     strategy_used |-> s, conversion_rate |-> 0, revenue_generated |-> 0]

Init ==
    /\ pc = "idle"
    /\ req = None
    /\ strategy = ""
    /\ via = "none"
    /\ price_data = None
    /\ outcome = None
    /\ db = Closed
    /\ history = <<>>
    /\ competitor_prices = <<>>
    /\ task = NoTask
    /\ log = EmptyLog
    /\ fr = NoFactor

---------------------------------------------------------------------------
(* calculate() *)

\* entry of calculate(req, strategy)
Enter(r, s, v) ==
    /\ pc \in {"idle", "done"}
    /\ log.calls < MaxCalls
    /\ pc' = "calc"
    /\ req' = r
    /\ strategy' = s
    /\ via' = v
    /\ price_data' = None
    /\ outcome' = None
    /\ log' = [log EXCEPT !.calls = @ + 1, !.opened = 0, !.appends = 0,
                          !.before = history]
    /\ UNCHANGED <<db, history, competitor_prices, task, fr>>

\* a caller of the engine passing any strategy string
CallCalculate == \E r \in SampleRequests, s \in Strategies : Enter(r, s, "direct")

\* an endpoint that picks a strategy for the caller
EndpointStrategyAggressive(r) == "aggressive"

\* the strategy calculate() sees when the endpoint calls it: the argument is
\* omitted, so the parameter's default
EndpointStrategy(r) == "default"

\* POST /calculate-price
calculate_price == \E r \in SampleRequests : Enter(r, EndpointStrategy(r), "endpoint")

\* calculation_method = ...get(strategy, default); price_data = calculation_method(req)
Calculate ==
    /\ pc = "calc"
    /\ LET pd == calculation_method(strategy, req)
       IN  /\ price_data' = pd
           /\ IF Raised(pd)
              THEN pc' = "done" /\ outcome' = pd
              ELSE pc' = "open" /\ outcome' = outcome
    /\ UNCHANGED <<req, strategy, via, db, history, competitor_prices, task, log, fr>>

\* with get_db() as db: db = SessionLocal()
OpenSession ==
    /\ pc = "open"
    /\ db' = [open |-> TRUE, pending |-> <<>>]
    /\ log' = [log EXCEPT !.opened = @ + 1]
    /\ pc' = "add"
    /\ UNCHANGED <<req, strategy, via, price_data, outcome, history,
                   competitor_prices, task, fr>>

\* db.add(PricingHistory(...))
Add ==
    /\ pc = "add"
    /\ db' = [db EXCEPT !.pending = Append(@, PricingHistory(req, price_data, strategy))]
    /\ pc' = "commit"
    /\ UNCHANGED <<req, strategy, via, price_data, outcome, history,
                   competitor_prices, task, log, fr>>

\* db.add raises
AddFails ==
    /\ pc = "add"
    /\ pc' = "close_exc"
    /\ UNCHANGED <<req, strategy, via, price_data, outcome, db, history,
                   competitor_prices, task, log, fr>>

\* a commit that rewrites the table with the session's rows
CommitOverwrites ==
    /\ pc = "commit"
    /\ history' = db.pending
    /\ db' = [db EXCEPT !.pending = <<>>]
    /\ log' = [log EXCEPT !.appends = @ + Len(db.pending)]
    /\ pc' = "close_ok"
    /\ UNCHANGED <<req, strategy, via, price_data, outcome,
                   competitor_prices, task, fr>>

\* db.commit()
Commit ==
    /\ pc = "commit"
    /\ history' = history \o db.pending
    /\ db' = [db EXCEPT !.pending = <<>>]
    /\ log' = [log EXCEPT !.appends = @ + Len(db.pending)]
    /\ pc' = "close_ok"
    /\ UNCHANGED <<req, strategy, via, price_data, outcome,
                   competitor_prices, task, fr>>

\* a commit that raises after the row has reached the table
CommitFailsAfterWrite ==
    /\ pc = "commit"
    /\ history' = history \o db.pending
    /\ pc' = "close_exc"
    /\ UNCHANGED <<req, strategy, via, price_data, outcome, db,
                   competitor_prices, task, log, fr>>

\* db.commit() raises
CommitFails ==
    /\ pc = "commit"
    /\ pc' = "close_exc"
    /\ UNCHANGED <<req, strategy, via, price_data, outcome, db, history,
                   competitor_prices, task, log, fr>>

\* a session closed only when the block ends normally (no finally)
CloseSessionNoFinally ==
    /\ pc \in {"close_ok", "close_exc"}
    /\ IF pc = "close_exc"
       THEN pc' = "done" /\ outcome' = StorageWriteFailure /\ db' = db
       ELSE pc' = "return" /\ outcome' = outcome /\ db' = Closed
    /\ UNCHANGED <<req, strategy, via, price_data, history,
                   competitor_prices, task, log, fr>>

\* finally: db.close(), what was not committed is discarded; an exception
\* in flight then reaches the caller of calculate()
CloseSession ==
    /\ pc \in {"close_ok", "close_exc"}
    /\ db' = Closed
    /\ IF pc = "close_exc"
       THEN pc' = "done" /\ outcome' = StorageWriteFailure
       ELSE pc' = "return" /\ outcome' = outcome
    /\ UNCHANGED <<req, strategy, via, price_data, history,
                   competitor_prices, task, log, fr>>

\* return price_data
Return ==
    /\ pc = "return"
    /\ outcome' = price_data
    /\ pc' = "done"
    /\ log' = [log EXCEPT !.returned =
                  Append(@, [req |-> req, strategy |-> strategy, quote |-> price_data])]
    /\ UNCHANGED <<req, strategy, via, price_data, db, history,
                   competitor_prices, task, fr>>

---------------------------------------------------------------------------
(* POST /competitor-prices/update and its background task *)

competitors == <<"Amazon", "Walmart", "Target", "BestBuy", "eBay">>

\* round(random.uniform(40, 60), 2), in cents; no code reads a row's price
\* back, so one value of the range stands for all
MockPrices == {5000}

CompetitorPrice(name, price) ==
    [product_id |-> "PROD-001", competitor_name |-> name, price |-> price,
     is_active |-> TRUE]

\* tasks.add_task(monitor_competitors)
update_competitors ==
    /\ task.pc \in {"none", "closed"}
    /\ task.runs < MaxRefresh
    /\ task' = [pc |-> "scheduled", pending |-> <<>>, runs |-> task.runs + 1]
    /\ UNCHANGED <<pc, req, strategy, via, price_data, outcome, db, history,
                   competitor_prices, log, fr>>

\* with get_db() as db, then the for loop adding one row per competitor
MonitorAdd ==
    /\ task.pc = "scheduled"
    /\ \E mock \in [1..Len(competitors) -> MockPrices] :
          task' = [task EXCEPT !.pc = "commit",
                     !.pending = [i \in 1..Len(competitors) |->
                                    CompetitorPrice(competitors[i], mock[i])]]
    /\ UNCHANGED <<pc, req, strategy, via, price_data, outcome, db, history,
                   competitor_prices, log, fr>>

\* db.commit() of the task
MonitorCommit ==
    /\ task.pc = "commit"
    /\ competitor_prices' = competitor_prices \o task.pending
    /\ task' = [task EXCEPT !.pc = "close", !.pending = <<>>]
    /\ UNCHANGED <<pc, req, strategy, via, price_data, outcome, db, history,
                   log, fr>>

\* db.commit() of the task raises
MonitorCommitFails ==
    /\ task.pc = "commit"
    /\ task' = [task EXCEPT !.pc = "close"]
    /\ UNCHANGED <<pc, req, strategy, via, price_data, outcome, db, history,
                   competitor_prices, log, fr>>

\* finally: db.close() of the task
MonitorClose ==
    /\ task.pc = "close"
    /\ task' = [task EXCEPT !.pc = "closed", !.pending = <<>>]
    /\ UNCHANGED <<pc, req, strategy, via, price_data, outcome, db, history,
                   competitor_prices, log, fr>>

---------------------------------------------------------------------------
(* Specifications *)

CalculateSteps ==
    \/ Calculate
    \/ OpenSession
    \/ Add
    \/ AddFails
    \/ Commit
    \/ CommitFails
    \/ CloseSession
    \/ Return

MonitorSteps ==
    \/ update_competitors
    \/ MonitorAdd
    \/ MonitorCommit
    \/ MonitorCommitFails
    \/ MonitorClose

Next ==
    \/ CallCalculate
    \/ calculate_price
    \/ CalculateSteps
    \/ MonitorSteps

Spec == Init /\ [][Next]_vars

\* only the transport layer drives the engine
NextEndpoint ==
    \/ calculate_price
    \/ CalculateSteps
    \/ MonitorSteps

SpecEndpoint == Init /\ [][NextEndpoint]_vars

\* one calculator applied to one request drawn from Requests
InitCalc ==
    /\ pc = "calc"
    /\ req \in Requests
    /\ strategy \in Strategies
    /\ via = "direct"
    /\ price_data = None
    /\ outcome = None
    /\ db = Closed
    /\ history = <<>>
    /\ competitor_prices = <<>>
    /\ task = NoTask
    /\ log = [EmptyLog EXCEPT !.calls = 1]
    /\ fr = NoFactor

NextCalc == Calculate

SpecCalc == InitCalc /\ [][NextCalc]_vars

\* one application of _factor to arguments meeting its precondition
Ascending(t) == \A i \in 1..(Len(t) - 1) : t[i] <= t[i + 1]
ThresholdValues == 0..MaxThreshold
FactorValues == {17, 20, 25}
ThresholdLists ==
    {t \in UNION {[1..n -> ThresholdValues] : n \in 0..MaxLen} : Ascending(t)}
        \cup {<<3, 7>>, <<10, 100>>}
ScanValues == (0..(MaxThreshold + 1)) \cup {7, 8, 10, 11, 100, 101}

InitFactor ==
    /\ pc = "idle"
    /\ req = None
    /\ strategy = ""
    /\ via = "none"
    /\ price_data = None
    /\ outcome = None
    /\ db = Closed
    /\ history = <<>>
    /\ competitor_prices = <<>>
    /\ task = NoTask
    /\ log = EmptyLog
    /\ \E v \in ScanValues, t \in ThresholdLists :
         \E f \in [1..(Len(t) + 1) -> FactorValues] :
            fr = [value |-> v, thresholds |-> t, factors |-> f,
                  done |-> FALSE, result |-> 0]

FactorCall ==
    /\ ~fr.done
    /\ fr' = [fr EXCEPT !.done = TRUE,
                        !.result = _factor(fr.value, fr.thresholds, fr.factors)]
    /\ UNCHANGED <<pc, req, strategy, via, price_data, outcome, db, history,
                   competitor_prices, task, log>>

NextFactor == FactorCall

SpecFactor == InitFactor /\ [][NextFactor]_vars

---------------------------------------------------------------------------
(* Properties *)

IsQuote(x) == "dynamic_price" \in DOMAIN x
Known == {"default", "aggressive", "conservative"}
HalfCent == FracDen \div 2

\* the amount v lies within half a cent of the whole number of cents dp
AtLeastRounded(dp, v) == Leq(v, <<dp, HalfCent>>)
AtMostRounded(dp, v) == Leq(<<dp - 1, HalfCent>>, v)
IsRounded(dp, v) == AtLeastRounded(dp, v) /\ AtMostRounded(dp, v)

\* the calculator named by key has produced the quote in price_data
Quoted(key) ==
    /\ pc = "open"
    /\ IsQuote(price_data)
    /\ (IF strategy \in Known THEN strategy ELSE "default") = key

\* C1 as stated: for competitor_price > 0 the default calculator's
\* dynamic_price lies in [cost_price*1.10, competitor_price*1.20].
C1_BandAsStated ==
    (Quoted("default") /\ req.competitor_price > 0) =>
        /\ Leq(Times(req.cost_price, 110, 100), Cents(price_data.dynamic_price))
        /\ Leq(Cents(price_data.dynamic_price), Times(req.competitor_price, 120, 100))

\* C1 amended: for competitor_price > 0 the default calculator's
\* dynamic_price is a price rounded to the cent that is at least the floor
\* cost_price*1.10, and at most the ceiling competitor_price*1.20 when the
\* ceiling is not below the floor; when it is below, the price is the floor.
C1_BandRounded ==
    (Quoted("default") /\ req.competitor_price > 0) =>
        LET lo == Times(req.cost_price, 110, 100)
            hi == Times(req.competitor_price, 120, 100)
            dp == price_data.dynamic_price
        IN  /\ AtLeastRounded(dp, lo)
            /\ Leq(lo, hi) => AtMostRounded(dp, hi)
            /\ Less(hi, lo) => IsRounded(dp, lo)

\* a default quote whose ceiling lies below its floor
C1_Witness ==
    /\ Quoted("default")
    /\ req.competitor_price > 0
    /\ Less(Times(req.competitor_price, 120, 100), Times(req.cost_price, 110, 100))
    /\ price_data.dynamic_price > req.competitor_price * 2

\* C2 as stated: the aggressive calculator's dynamic_price lies in
\* [cost_price*1.05, competitor_price*1.10] for every request.
C2_BandAsStated ==
    Quoted("aggressive") =>
        /\ Leq(Times(req.cost_price, 105, 100), Cents(price_data.dynamic_price))
        /\ Leq(Cents(price_data.dynamic_price), Times(req.competitor_price, 110, 100))

\* C2 amended: the aggressive calculator's dynamic_price is a price rounded
\* to the cent that is at least the floor cost_price*1.05, and at most the
\* ceiling competitor_price*1.10 when the ceiling is not below the floor;
\* when it is below, the price is the floor.
C2_BandRounded ==
    Quoted("aggressive") =>
        LET lo == Times(req.cost_price, 105, 100)
            hi == Times(req.competitor_price, 110, 100)
            dp == price_data.dynamic_price
        IN  /\ AtLeastRounded(dp, lo)
            /\ Leq(lo, hi) => AtMostRounded(dp, hi)
            /\ Less(hi, lo) => IsRounded(dp, lo)

\* an aggressive quote cut down to a ceiling that is above the floor
C2_Witness ==
    /\ Quoted("aggressive")
    /\ Less(Times(req.cost_price, 105, 100), Times(req.competitor_price, 110, 100))
    /\ IsRounded(price_data.dynamic_price, Times(req.competitor_price, 110, 100))
    /\ price_data.base_price > price_data.dynamic_price

\* C3 as stated: the conservative calculator's dynamic_price is at least
\* cost_price*1.15; at most competitor_price*0.95 when that ceiling is not
\* below the floor; and exactly the floor cost_price*1.15 when it is.
C3_BandAsStated ==
    Quoted("conservative") =>
        LET lo == Times(req.cost_price, 115, 100)
            hi == Times(req.competitor_price, 95, 100)
            dp == Cents(price_data.dynamic_price)
        IN  /\ Leq(lo, dp)
            /\ Leq(lo, hi) => Leq(dp, hi)
            /\ Less(hi, lo) => dp = lo

\* C3 amended: the conservative calculator's dynamic_price is a price rounded
\* to the cent that is at least the floor cost_price*1.15, at most the
\* ceiling competitor_price*0.95 when the ceiling is not below the floor, and
\* the floor itself when it is below; cost_price=100, demand_score=1,
\* competitor_price=90 gives 115.00.
C3_BandRounded ==
    Quoted("conservative") =>
        LET lo == Times(req.cost_price, 115, 100)
            hi == Times(req.competitor_price, 95, 100)
            dp == price_data.dynamic_price
        IN  /\ AtLeastRounded(dp, lo)
            /\ Leq(lo, hi) => AtMostRounded(dp, hi)
            /\ Less(hi, lo) => IsRounded(dp, lo)
            /\ (req.cost_price = 10000 /\ req.demand_score = 1
                  /\ req.competitor_price = 9000) => dp = 11500

\* the conservative example: floor 115.00 above the ceiling 85.50
C3_Witness ==
    /\ Quoted("conservative")
    /\ req.cost_price = 10000
    /\ req.demand_score = 1
    /\ req.competitor_price = 9000
    /\ price_data.dynamic_price = 11500

OneRecordPerQuote ==
    LET n == Len(log.returned)
    IN  /\ Len(history) = n + (IF pc \in {"close_ok", "return"} THEN 1 ELSE 0)
        /\ \A i \in 1..n :
              LET h == history[i]
                  c == log.returned[i]
              IN  /\ h.product_id = c.req.product_id
                  /\ h.original_price = c.quote.base_price
                  /\ h.dynamic_price = c.quote.dynamic_price
                  /\ h.demand_score = c.req.demand_score
                  /\ h.inventory = c.req.inventory
                  /\ h.competitor_price = c.req.competitor_price
                  /\ h.strategy_used = c.strategy

\* a step keeps every row the history already holds
HistoryKept ==
    /\ Len(history') >= Len(history)
    /\ \A i \in 1..Len(history) : history'[i] = history[i]

\* C5: under any interleaving of calculate calls and refresh runs the history
\* holds exactly one row per call that returned a quote, carrying that call's
\* data, and no step changes or removes a row already written.
C5_HistoryAppendOnly == [](OneRecordPerQuote) /\ [][HistoryKept]_vars

\* a second call about to commit while a refresh is about to commit
C5_Witness ==
    /\ Len(history) = 1
    /\ pc = "commit"
    /\ task.pc = "commit"

\* C6: when add or commit fails, the failure reaches the caller of calculate,
\* no quote is returned, nothing is retried and the history is as it was
\* before the call.
C6_Failed ==
    /\ pc = "close_exc" =>
         /\ history = log.before
         /\ outcome = None
    /\ outcome = StorageWriteFailure =>
         /\ pc = "done"
         /\ history = log.before
         /\ Len(log.returned) = Len(history)
         /\ log.opened = 1
         /\ log.appends = 0
         /\ db = Closed

C6_Propagates ==
    (pc = "close_exc" /\ pc' # pc) => (pc' = "done" /\ outcome' = StorageWriteFailure)

C6_AppendFailure == [](C6_Failed) /\ [][C6_Propagates]_vars

\* a commit has failed with a row pending, after an earlier call succeeded
C6_Witness ==
    /\ pc = "close_exc"
    /\ Len(db.pending) = 1
    /\ Len(history) = 1

\* C7: the calculation raises exactly when competitor_price is 0 and the
\* default calculator runs; the fault reaches the caller, no session is
\* opened and no row appended; aggressive and conservative quote at 0.
C7_ArithmeticFault ==
    pc \notin {"idle", "calc"} =>
        /\ Raised(price_data) <=>
             (req.competitor_price = 0 /\ strategy \notin {"aggressive", "conservative"})
        /\ Raised(price_data) =>
             /\ price_data = ZeroDivisionError
             /\ pc = "done"
             /\ outcome = ZeroDivisionError
             /\ history = log.before
             /\ log.opened = 0
             /\ db = Closed
        /\ ~Raised(price_data) => IsQuote(price_data)

\* an unrecognized strategy has faulted on a zero competitor price after an
\* earlier call was recorded
C7_Witness ==
    /\ pc = "done"
    /\ outcome = ZeroDivisionError
    /\ strategy \notin Known
    /\ req.competitor_price = 0
    /\ Len(history) = 1

\* C8: a call whose calculation succeeds opens one session, appends once on
\* it after the calculation and before the quote is returned, and the
\* session is released on every exit path: none is open once a call ended.
C8_ScopedSession ==
    /\ db.open <=> pc \in {"add", "commit", "close_ok", "close_exc"}
    /\ db.open => IsQuote(price_data)
    /\ pc \in {"idle", "done", "return", "calc", "open"} => db = Closed
    /\ log.opened <= 1
    /\ log.appends <= 1
    /\ pc \in {"add", "commit", "close_ok", "close_exc", "return"} => log.opened = 1
    /\ (pc = "done" /\ IsQuote(price_data)) => log.opened = 1
    /\ pc \in {"close_ok", "return"} => log.appends = 1
    /\ IsQuote(outcome) => (pc = "done" /\ log.appends = 1 /\ db = Closed)

\* a call has ended on a failed append with its session released
C8_Witness ==
    /\ pc = "done"
    /\ outcome = StorageWriteFailure
    /\ log.opened = 1
    /\ db = Closed

\* C9: _factor returns the factor at the first position whose threshold is
\* not below the value, and the last factor when every threshold is below
\* it; a value equal to a threshold takes that threshold's factor.
C9_FirstThresholdNotBelow ==
    fr.done =>
        LET hits == {i \in 1..Len(fr.thresholds) : fr.value <= fr.thresholds[i]}
        IN  IF hits = {}
            THEN fr.result = fr.factors[Len(fr.factors)]
            ELSE \E i \in hits :
                    /\ \A j \in hits : i <= j
                    /\ fr.result = fr.factors[i]

\* demand score 7 against the thresholds 3 and 7 takes the middle factor
C9_Witness ==
    /\ fr.done
    /\ fr.thresholds = <<3, 7>>
    /\ fr.factors = <<17, 20, 25>>
    /\ fr.value = 7
    /\ fr.result = 20

\* C10: driven through /calculate-price alone, only the default calculator
\* runs: every quote is tagged "default" and every history row has
\* strategy_used = "default".
C10_EndpointDefaultOnly ==
    /\ pc # "idle" => (via = "endpoint" /\ strategy = "default")
    /\ IsQuote(price_data) =>
         (price_data.strategy = "default" /\ price_data = _calculate_default_price(req))
    /\ IsQuote(outcome) => outcome.strategy = "default"
    /\ \A i \in 1..Len(history) : history[i].strategy_used = "default"

\* two endpoint requests have been quoted and recorded
C10_Witness ==
    /\ pc = "done"
    /\ IsQuote(outcome)
    /\ Len(history) = 2

=============================================================================
